---------------------------- MODULE Spec2Model ----------------------------
(***************************************************************************)
(* A model of the Tedee BLE lock client: the PTLS session (handshake and   *)
(* record layer, tedee_lib/ptls.py), the lock command layer                *)
(* (tedee_lib/lock_commands.py), the BLE transport queues (tedee_lib/      *)
(* ble.py) and the connection coordinator (coordinator.py).                *)
(*                                                                         *)
(* The program is single-threaded cooperative asyncio code: one action of  *)
(* the model is the code a task runs between two suspension points.        *)
(***************************************************************************)
EXTENDS Integers, Sequences, FiniteSets, TLC

(***************************************************************************)
(* Bounds of the model (not program constants).                            *)
(***************************************************************************)
\* record operations per PTLS session in the session harness
MaxCtr == 3

(***************************************************************************)
(* Program constants.                                                      *)
(***************************************************************************)
PTLS_HELLO == 3
PTLS_ALERT == 4
PTLS_SERVER_VERIFY == 5
PTLS_CLIENT_VERIFY_I == 6
PTLS_CLIENT_VERIFY_II == 7
PTLS_INITIALIZED == 8
DATA_NOT_ENCRYPTED == 0
DATA_ENCRYPTED == 1
PTLS_VERSION == 2
ALERT_NO_TRUSTED_TIME == 2
ALERT_SESSION_TIMEOUT == 3
ALERT_INVALID_CERTIFICATE == 5
\* response[1] if len(response) > 1 else 0xFF
ALERT_MISSING_CODE == 255
DEFAULT_SERVER_MTU == 244

CMD_GET_BATTERY == 12
CMD_LOCK == 80
CMD_UNLOCK == 81
CMD_PULL_SPRING == 82
CMD_GET_STATE == 90
CMD_SET_SIGNED_DATETIME == 113
RESULT_SUCCESS == 0
RESULT_BUSY == 3
NOTIFY_LOCK_STATUS_CHANGE == 186
NOTIFY_NEED_DATE_TIME == 164

\* Python's None for the integer-valued and the bytes-valued fields
None == -1
NoBytes == << >>

(***************************************************************************)
(* crypto.py                                                               *)
(***************************************************************************)
RECURSIVE Xor(_, _)
\* the ^ operator on non-negative integers
Xor(a, b) ==
    IF a = 0 THEN b
    ELSE IF b = 0 THEN a
    ELSE (((a % 2) + (b % 2)) % 2) + 2 * Xor(a \div 2, b \div 2)

\* HMAC-SHA256(key, label || hash) as 28 bytes of output: a mixing function
\* of the three inputs (the real digest is not computed).
hmac_sha256(shared, label, hash) ==
    [i \in 1..28 |-> (shared * 7 + label * 13 + hash * 29 + i * 31) % 256]

\* derive_keys_from_hmac: key = material[:16], iv = material[16:28]
derive_keys_from_hmac(shared, label, hash) ==
    LET material == hmac_sha256(shared, label, hash)
    IN  [key |-> SubSeq(material, 1, 16), iv |-> SubSeq(material, 17, 28)]

\* the four labels, by index
LABEL_S_HS == 1
LABEL_C_HS == 2
LABEL_S_AP == 3
LABEL_C_AP == 4

\* make_nonce: iv[10] ^= (counter >> 8) & 0xFF; iv[11] ^= counter & 0xFF.
\* Python's bytes are indexed from 0, the sequence here from 1.
make_nonce(base_iv, counter) ==
    [base_iv EXCEPT ![11] = Xor(@, (counter \div 256) % 256),
                    ![12] = Xor(@, counter % 256)]

\* AES-GCM: the ciphertext-and-tag of pt under (key, iv), as a sealed box
aes_gcm_encrypt(key, iv, pt) == [key |-> key, nonce |-> iv, pt |-> pt]

\* AESGCM.decrypt: the tag verifies only under the same key and nonce
aes_gcm_tag_ok(key, iv, box) == box.key = key /\ box.nonce = iv

NoBox == [key |-> NoBytes, nonce |-> NoBytes, pt |-> NoBytes]

(***************************************************************************)
(* Payloads on the wire.  A record of the command or notification channel  *)
(* is [hdr, tail, box]: the header byte data[0], the bytes data[1:] of a   *)
(* plaintext or alert record, the sealed box of an encrypted record.       *)
(***************************************************************************)
WireRec(hdr, tail, box) == [hdr |-> hdr, tail |-> tail, box |-> box]
NoRec == WireRec(None, NoBytes, NoBox)

\* data[0] & 0x0F
LowNibble(b) == b % 16

\* the result of a call: a value, or the exception it raised
Ok(out, pt) == [kind |-> "ok", code |-> 0, out |-> out, pt |-> pt]
Raise(kind, code) == [kind |-> kind, code |-> code, out |-> NoRec, pt |-> NoBytes]
NoResult == Raise("none", 0)

(***************************************************************************)
(* ptls.py: the PTLSSession object.                                        *)
(***************************************************************************)
\* PTLSSession.__init__
PTLSSessionInit ==
    [ session_id    |-> None,
      send_key      |-> NoBytes,
      send_iv       |-> NoBytes,
      recv_key      |-> NoBytes,
      recv_iv       |-> NoBytes,
      send_counter  |-> 0,
      recv_counter  |-> 0,
      shared_secret |-> None,
      transcript    |-> << >>,
      hello_hash    |-> None,
      server_mtu    |-> DEFAULT_SERVER_MTU,
      eph           |-> None ]

\* PTLSSession.is_established
is_established(s) == s.session_id # None

\* the running SHA-256 over the transcript, as a number
RECURSIVE HashOf(_)
HashOf(t) == IF t = << >> THEN 7 ELSE (HashOf(SubSeq(t, 1, Len(t) - 1)) * 31 + t[Len(t)] + 1) % 251


\* a frame of the handshake channel: header byte, total length, byte 1, and
\* what the step that receives it reads from it
HsFrame(hdr, len, b1, mtu, pub, box, sid) ==
    [hdr |-> hdr, len |-> len, b1 |-> b1, mtu |-> mtu, pub |-> pub,
     box |-> box, sid |-> sid]

\* the alert error carrying byte 0 of the frame, its header (a mutant)
AlertOf_byte_zero(f) == Raise("PTLSAlertError", f.hdr)

\* raise PTLSAlertError(response[1] if len(response) > 1 else 0xFF)
AlertOf(f) == Raise("PTLSAlertError", IF f.len > 1 THEN f.b1 ELSE ALERT_MISSING_CODE)

\* what a handshake step hands on: the session, how the step ended, and the
\* frames it wrote to the handshake channel, each [hdr, n] with n body bytes
Step(s, r, wrote) == [s |-> s, r |-> r, wrote |-> wrote]

\* the payloads that enter the transcript, as numbers
ClientHelloPayload(eph) == 10 + eph
ServerHelloPayload(f) == 20 + f.pub + (f.mtu % 7)
ServerVerifyPayload(pt) == 40 + pt[1] + pt[2] + (pt[4] % 5)
ClientVerifyPayload(cert, hash) == 60 + cert + (hash % 5)
AuthDataField(auth) == 80 + auth

\* crypto.ecdh_shared_secret, symmetric in the two key pairs
ecdh_shared_secret(eph, pub) == eph * pub

\* the device's long-term identity, as configured (device_public_key_b64)
DevicePub == 1
\* the certificate the cloud issued, and its encoded length in bytes
Certificate == 1
\* int(time.time() * 1000) when _server_verify runs
AuthData == 1

\* _hello_exchange up to its read: the 152-byte client hello is hashed and
\* written with the PTLS_HELLO header.  eph is the ephemeral key generated.
hello_exchange_send(s, eph) ==
    Step([s EXCEPT !.transcript = Append(@, ClientHelloPayload(eph)),
                   !.eph = eph],
         Ok(NoRec, NoBytes),
         << [hdr |-> PTLS_HELLO, n |-> 152] >>)

\* _hello_exchange and _server_verify with the challenge hashed into the
\* transcript when it is written (a mutant)
hello_exchange_recv_hashes_challenge(s, f) ==
    LET header == LowNibble(f.hdr)
        t1 == Append(s.transcript, ServerHelloPayload(f))
        s1 == [s EXCEPT !.server_mtu = f.mtu,
                        !.transcript = t1,
                        !.hello_hash = HashOf(t1)]
    IN  IF header = PTLS_ALERT THEN Step(s, AlertOf(f), << >>)
        ELSE IF header # PTLS_HELLO THEN Step(s, Raise("PTLSError", 0), << >>)
        ELSE IF f.len - 1 < 100 THEN Step(s, Raise("PTLSError", 0), << >>)
        ELSE IF f.pub = 0 THEN Step(s1, Raise("ValueError", 0), << >>)
        ELSE Step([s1 EXCEPT !.shared_secret = ecdh_shared_secret(s.eph, f.pub),
                             !.transcript = Append(t1, AuthDataField(AuthData))],
                  Ok(NoRec, NoBytes),
                  << [hdr |-> PTLS_SERVER_VERIFY, n |-> 8] >>)

\* _hello_exchange from its read of the server hello f on, followed by
\* _server_verify up to its read (the challenge is written, not hashed)
hello_exchange_recv(s, f) ==
    LET header == LowNibble(f.hdr)
        t1 == Append(s.transcript, ServerHelloPayload(f))
        s1 == [s EXCEPT !.server_mtu = f.mtu,
                        !.transcript = t1,
                        !.hello_hash = HashOf(t1)]
    IN  IF header = PTLS_ALERT THEN Step(s, AlertOf(f), << >>)
        ELSE IF header # PTLS_HELLO THEN Step(s, Raise("PTLSError", 0), << >>)
        ELSE IF f.len - 1 < 100 THEN Step(s, Raise("PTLSError", 0), << >>)
        \* bytes_to_public_key raises ValueError for a point not on the curve
        ELSE IF f.pub = 0 THEN Step(s1, Raise("ValueError", 0), << >>)
        ELSE Step([s1 EXCEPT !.shared_secret = ecdh_shared_secret(s.eph, f.pub)],
                  Ok(NoRec, NoBytes),
                  << [hdr |-> PTLS_SERVER_VERIFY, n |-> 8] >>)

\* encrypted[:mtu] and encrypted[mtu:] of a ciphertext of L bytes, as Python
\* slices them (a negative bound counts from the end)
SliceBound(L, m) == IF m >= 0 THEN (IF m < L THEN m ELSE L)
                    ELSE (IF L + m > 0 THEN L + m ELSE 0)

\* the client-verify frames with no second frame for an empty remainder (a
\* mutant)
client_verify_frames_one_when_fits(L, server_mtu) ==
    LET mtu == server_mtu - 1
    IN  IF L <= mtu
        THEN << [hdr |-> PTLS_CLIENT_VERIFY_I, n |-> L, at |-> 0] >>
        ELSE << [hdr |-> PTLS_CLIENT_VERIFY_I, n |-> SliceBound(L, mtu), at |-> 0],
                [hdr |-> PTLS_CLIENT_VERIFY_II, n |-> L - SliceBound(L, mtu),
                 at |-> SliceBound(L, mtu)] >>

\* the two client-verify frames for a ciphertext of L bytes: each carries
\* the n ciphertext bytes that start at offset at
client_verify_frames(L, server_mtu) ==
    LET mtu == server_mtu - 1
    IN  IF L <= mtu
        THEN << [hdr |-> PTLS_CLIENT_VERIFY_I, n |-> L, at |-> 0],
                [hdr |-> PTLS_CLIENT_VERIFY_II, n |-> 0, at |-> L] >>
        ELSE << [hdr |-> PTLS_CLIENT_VERIFY_I, n |-> SliceBound(L, mtu), at |-> 0],
                [hdr |-> PTLS_CLIENT_VERIFY_II, n |-> L - SliceBound(L, mtu),
                 at |-> SliceBound(L, mtu)] >>

\* len(encrypted) of the client-verify payload: three length-prefixed fields
\* (certificate, DER signature, 32-byte hash) and the 16-byte tag
CertLen == 300
SigLen == 71
ClientVerifyLen == (2 + CertLen) + (2 + SigLen) + (2 + 32) + 16

\* _server_verify without the comparison of the echoed hello hash (a mutant)
server_verify_recv_no_hash_check(s, f) ==
    LET header == LowNibble(f.hdr)
        srv == derive_keys_from_hmac(s.shared_secret, LABEL_S_HS, s.hello_hash)
        pt == f.box.pt
        sig_digest == HashOf(Append(s.transcript, AuthDataField(pt[1])))
        t1 == Append(s.transcript, ServerVerifyPayload(pt))
        t2 == Append(t1, ClientVerifyPayload(Certificate, HashOf(t1)))
    IN  IF header = PTLS_ALERT THEN Step(s, AlertOf(f), << >>)
        ELSE IF header # PTLS_SERVER_VERIFY THEN Step(s, Raise("PTLSError", 0), << >>)
        ELSE IF ~aes_gcm_tag_ok(srv.key, srv.iv, f.box) THEN Step(s, Raise("PTLSError", 0), << >>)
        ELSE IF pt[1] # AuthData THEN Step(s, Raise("PTLSError", 0), << >>)
        ELSE IF ~(pt[2] = DevicePub /\ pt[3] = sig_digest)
             THEN Step(s, Raise("PTLSError", 0), << >>)
        ELSE Step([s EXCEPT !.transcript = t2],
                  Ok(NoRec, NoBytes),
                  client_verify_frames(ClientVerifyLen, s.server_mtu))

\* _server_verify from its read of the response f on, followed by
\* _client_verify (which only writes)
server_verify_recv(s, f) ==
    LET header == LowNibble(f.hdr)
        srv == derive_keys_from_hmac(s.shared_secret, LABEL_S_HS, s.hello_hash)
        pt == f.box.pt
        \* the digest the server signed: transcript, then len || auth_data
        sig_digest == HashOf(Append(s.transcript, AuthDataField(pt[1])))
        t1 == Append(s.transcript, ServerVerifyPayload(pt))
        t2 == Append(t1, ClientVerifyPayload(Certificate, HashOf(t1)))
    IN  IF header = PTLS_ALERT THEN Step(s, AlertOf(f), << >>)
        ELSE IF header # PTLS_SERVER_VERIFY THEN Step(s, Raise("PTLSError", 0), << >>)
        ELSE IF ~aes_gcm_tag_ok(srv.key, srv.iv, f.box) THEN Step(s, Raise("PTLSError", 0), << >>)
        \* plaintext fields: pt[1] auth_data, pt[2] signer and pt[3] digest of
        \* the signature, pt[4] hello hash
        ELSE IF pt[1] # AuthData THEN Step(s, Raise("PTLSError", 0), << >>)
        ELSE IF pt[4] # s.hello_hash THEN Step(s, Raise("PTLSError", 0), << >>)
        ELSE IF ~(pt[2] = DevicePub /\ pt[3] = sig_digest)
             THEN Step(s, Raise("PTLSError", 0), << >>)
        ELSE Step([s EXCEPT !.transcript = t2],
                  Ok(NoRec, NoBytes),
                  client_verify_frames(ClientVerifyLen, s.server_mtu))

\* _wait_initialized with both counters starting at 1 (a mutant)
wait_initialized_counters_at_one(s, f) ==
    LET header == LowNibble(f.hdr)
        finished_hash == HashOf(s.transcript)
        snd == derive_keys_from_hmac(s.shared_secret, LABEL_C_AP, finished_hash)
        rcv == derive_keys_from_hmac(s.shared_secret, LABEL_S_AP, finished_hash)
    IN  IF header = PTLS_ALERT THEN Step(s, AlertOf(f), << >>)
        ELSE IF header # PTLS_INITIALIZED THEN Step(s, Raise("PTLSError", 0), << >>)
        ELSE Step([s EXCEPT !.session_id = f.sid,
                            !.send_key = snd.key, !.send_iv = snd.iv,
                            !.recv_key = rcv.key, !.recv_iv = rcv.iv,
                            !.send_counter = 1, !.recv_counter = 1],
                  Ok(NoRec, NoBytes), << >>)

\* _wait_initialized from its read of f on: session id, application keys,
\* counters
wait_initialized(s, f) ==
    LET header == LowNibble(f.hdr)
        finished_hash == HashOf(s.transcript)
        snd == derive_keys_from_hmac(s.shared_secret, LABEL_C_AP, finished_hash)
        rcv == derive_keys_from_hmac(s.shared_secret, LABEL_S_AP, finished_hash)
    IN  IF header = PTLS_ALERT THEN Step(s, AlertOf(f), << >>)
        ELSE IF header # PTLS_INITIALIZED THEN Step(s, Raise("PTLSError", 0), << >>)
        ELSE Step([s EXCEPT !.session_id = f.sid,
                            !.send_key = snd.key, !.send_iv = snd.iv,
                            !.recv_key = rcv.key, !.recv_iv = rcv.iv,
                            !.send_counter = 0, !.recv_counter = 0],
                  Ok(NoRec, NoBytes), << >>)

\* encrypt with the nonce taken after the counter was incremented (a mutant)
encrypt_nonce_after_increment(s, plaintext) ==
    IF ~is_established(s) THEN [s |-> s, r |-> Raise("PTLSError", 0)]
    ELSE LET nonce == make_nonce(s.send_iv, s.send_counter + 1)
             ciphertext == aes_gcm_encrypt(s.send_key, nonce, plaintext)
         IN  [s |-> [s EXCEPT !.send_counter = @ + 1],
              r |-> Ok(WireRec(DATA_ENCRYPTED, NoBytes, ciphertext), NoBytes)]

\* PTLSSession.encrypt
encrypt(s, plaintext) ==
    IF ~is_established(s) THEN [s |-> s, r |-> Raise("PTLSError", 0)]
    ELSE LET nonce == make_nonce(s.send_iv, s.send_counter)
             ciphertext == aes_gcm_encrypt(s.send_key, nonce, plaintext)
         IN  [s |-> [s EXCEPT !.send_counter = @ + 1],
              r |-> Ok(WireRec(DATA_ENCRYPTED, NoBytes, ciphertext), NoBytes)]

\* _decrypt_inner with the counter incremented before the tag check (a mutant)
decrypt_inner_count_first(s, data) ==
    LET header == LowNibble(data.hdr)
        nonce == make_nonce(s.recv_iv, s.recv_counter)
        s1 == [s EXCEPT !.recv_counter = @ + 1]
    IN  IF ~is_established(s) THEN [s |-> s, r |-> Raise("PTLSError", 0)]
        ELSE IF header = PTLS_ALERT
             THEN [s |-> s, r |-> Raise("PTLSAlertError",
                       IF Len(data.tail) > 0 THEN data.tail[1] ELSE ALERT_MISSING_CODE)]
        ELSE IF header = DATA_NOT_ENCRYPTED THEN [s |-> s, r |-> Ok(NoRec, data.tail)]
        ELSE IF header # DATA_ENCRYPTED THEN [s |-> s, r |-> Raise("PTLSError", 0)]
        ELSE IF ~aes_gcm_tag_ok(s.recv_key, nonce, data.box)
             THEN [s |-> s1, r |-> Raise("InvalidTag", 0)]
        ELSE [s |-> s1, r |-> Ok(NoRec, data.box.pt)]

\* _decrypt_inner that looks at the header before is_established (a mutant)
decrypt_inner_header_first(s, data) ==
    LET header == LowNibble(data.hdr)
        nonce == make_nonce(s.recv_iv, s.recv_counter)
    IN  IF header = PTLS_ALERT
        THEN [s |-> s, r |-> Raise("PTLSAlertError",
                  IF Len(data.tail) > 0 THEN data.tail[1] ELSE ALERT_MISSING_CODE)]
        ELSE IF header = DATA_NOT_ENCRYPTED THEN [s |-> s, r |-> Ok(NoRec, data.tail)]
        ELSE IF ~is_established(s) THEN [s |-> s, r |-> Raise("PTLSError", 0)]
        ELSE IF header # DATA_ENCRYPTED THEN [s |-> s, r |-> Raise("PTLSError", 0)]
        ELSE IF ~aes_gcm_tag_ok(s.recv_key, nonce, data.box)
             THEN [s |-> s, r |-> Raise("InvalidTag", 0)]
        ELSE [s |-> [s EXCEPT !.recv_counter = @ + 1], r |-> Ok(NoRec, data.box.pt)]

\* PTLSSession._decrypt_inner
decrypt_inner(s, data) ==
    LET header == LowNibble(data.hdr)
        nonce == make_nonce(s.recv_iv, s.recv_counter)
    IN  IF ~is_established(s) THEN [s |-> s, r |-> Raise("PTLSError", 0)]
        ELSE IF header = PTLS_ALERT
             THEN [s |-> s, r |-> Raise("PTLSAlertError",
                       IF Len(data.tail) > 0 THEN data.tail[1] ELSE ALERT_MISSING_CODE)]
        ELSE IF header = DATA_NOT_ENCRYPTED THEN [s |-> s, r |-> Ok(NoRec, data.tail)]
        ELSE IF header # DATA_ENCRYPTED THEN [s |-> s, r |-> Raise("PTLSError", 0)]
        \* crypto.aes_gcm_decrypt raises InvalidTag before the increment
        ELSE IF ~aes_gcm_tag_ok(s.recv_key, nonce, data.box)
             THEN [s |-> s, r |-> Raise("InvalidTag", 0)]
        ELSE [s |-> [s EXCEPT !.recv_counter = @ + 1], r |-> Ok(NoRec, data.box.pt)]

\* PTLSSession.async_decrypt: _decrypt_inner under _crypto_lock.  The lock is
\* free whenever it is asked for: no holder suspends while holding it.
async_decrypt(s, data) == decrypt_inner(s, data)


(***************************************************************************)
(* The session on its own: one PTLSSession object driven through its       *)
(* public interface (handshake(), encrypt(), async_decrypt()) by a caller  *)
(* and a peer that may send any frame.                                     *)
(***************************************************************************)
VARIABLES
    hs,      \* the PTLSSession object
    hpc,     \* where its handshake() coroutine stands
    hop,     \* the last call: [op, pre (the object before it), m, data]
    hres,    \* how the last call ended
    hwrote   \* the frames handshake() wrote, in order

hvars == << hs, hpc, hop, hres, hwrote >>

\* the state of the coordinator, its tasks and the device (described below)
VARIABLES
    co,        \* the coordinator's fields
    cx,        \* the _connect call that holds _connecting_lock, and its locals
    spc,       \* async_setup
    rt,        \* the task in _reconnect_task: [pc, delay, failed, ep]
    poll,      \* _async_update_data: [pc, ep]
    user,      \* a user command (async_lock, async_unlock): [pc, cmd]
    nl,        \* the notification loop tasks: [pc, ep]
    cmdLock,   \* who holds _command_lock
    infl,      \* per issuer, the command written whose response is awaited
    sess,      \* the PTLSSession objects
    link,      \* the transport whose BLE link is up
    nconn,     \* transports created so far
    cloud,     \* signed-time blobs the cloud has issued
    apiQ,      \* per transport, _api_command_queue
    notifQ,    \* per transport, _notification_queue
    dev,       \* the device: requests not yet answered, records sent
    sent,      \* per session, the first plaintext encrypt was called with, and its counter
    lastRead,  \* the record the last step took from a queue, and what became of it
    budget,    \* link losses, and calls from outside and faults of the lock, so far
    sd         \* async_shutdown: [pc, ep]

cvars == << co, cx, spc, rt, poll, user, nl, cmdLock, infl, sess, link, nconn,
            cloud, apiQ, notifQ, dev, sent, lastRead, budget, sd >>

vars == << hvars, cvars >>

HOp(op, pre, m, data) == [op |-> op, pre |-> pre, m |-> m, data |-> data]

\* the ephemeral keys handshake() may generate
EphKeys == {2, 3}
\* plaintexts handed to encrypt
Plaintexts == { << CMD_GET_STATE >>, << CMD_UNLOCK, 0 >> }

\* frames the peer may send where the server hello is expected
HelloFrames ==
    { HsFrame(PTLS_HELLO, 101, PTLS_VERSION, 244, 5, NoBox, None),
      HsFrame(PTLS_HELLO + 16, 101, PTLS_VERSION, 23, 5, NoBox, None),
      HsFrame(PTLS_HELLO, 101, PTLS_VERSION, 244, 0, NoBox, None),
      HsFrame(PTLS_HELLO, 60, PTLS_VERSION, 244, 5, NoBox, None),
      HsFrame(PTLS_ALERT, 2, ALERT_NO_TRUSTED_TIME, 0, 0, NoBox, None),
      HsFrame(PTLS_ALERT, 2, ALERT_INVALID_CERTIFICATE, 0, 0, NoBox, None),
      HsFrame(PTLS_ALERT, 1, None, 0, 0, NoBox, None),
      HsFrame(PTLS_INITIALIZED, 5, 0, 0, 0, NoBox, 9) }

\* the server-verify response of a peer that holds the same secret and
\* transcript as s: auth echoes a, the signature is by signer over the
\* digest, the hello hash is offset by dh, the box is sealed for counter 0
\* under the server handshake key (or a wrong one)
ServerVerifyFrame(s, a, signer, dh, goodkey) ==
    LET srv == derive_keys_from_hmac(s.shared_secret, LABEL_S_HS, s.hello_hash)
        digest == HashOf(Append(s.transcript, AuthDataField(a)))
        pt == << a, signer, digest, s.hello_hash + dh >>
    IN  HsFrame(PTLS_SERVER_VERIFY, 120, 0, 0, 0,
                aes_gcm_encrypt(IF goodkey THEN srv.key ELSE NoBytes, srv.iv, pt), None)

ServerVerifyFrames(s) ==
    { ServerVerifyFrame(s, AuthData, DevicePub, 0, TRUE),
      ServerVerifyFrame(s, AuthData, DevicePub, 0, FALSE),
      ServerVerifyFrame(s, AuthData + 1, DevicePub, 0, TRUE),
      ServerVerifyFrame(s, AuthData, DevicePub + 1, 0, TRUE),
      ServerVerifyFrame(s, AuthData, DevicePub, 1, TRUE),
      HsFrame(PTLS_ALERT, 2, ALERT_INVALID_CERTIFICATE, 0, 0, NoBox, None),
      HsFrame(PTLS_HELLO, 101, PTLS_VERSION, 244, 5, NoBox, None) }

InitializedFrames ==
    { HsFrame(PTLS_INITIALIZED, 5, 0, 0, 0, NoBox, 9),
      HsFrame(PTLS_INITIALIZED + 32, 5, 0, 0, 0, NoBox, 4),
      HsFrame(PTLS_ALERT, 2, ALERT_NO_TRUSTED_TIME, 0, 0, NoBox, None),
      HsFrame(PTLS_ALERT, 2, ALERT_INVALID_CERTIFICATE, 0, 0, NoBox, None),
      HsFrame(PTLS_SERVER_VERIFY, 5, 0, 0, 0, NoBox, None) }

\* the key and IV the peer seals application records with: those of the
\* session once it has them
PeerKey(s) == IF s.recv_key = NoBytes THEN derive_keys_from_hmac(1, LABEL_S_AP, 1).key ELSE s.recv_key
PeerIv(s) == IF s.recv_iv = NoBytes THEN derive_keys_from_hmac(1, LABEL_S_AP, 1).iv ELSE s.recv_iv

\* records the peer may send on the command or notification channel
RecvRecords(s) ==
    { WireRec(DATA_ENCRYPTED, NoBytes,
              aes_gcm_encrypt(PeerKey(s), make_nonce(PeerIv(s), c), << CMD_GET_STATE, RESULT_SUCCESS >>))
        : c \in 0..MaxCtr }
    \cup { WireRec(DATA_ENCRYPTED + 16, NoBytes,
              aes_gcm_encrypt(NoBytes, make_nonce(PeerIv(s), s.recv_counter), << CMD_GET_STATE, RESULT_SUCCESS >>)),
           WireRec(DATA_NOT_ENCRYPTED, << NOTIFY_NEED_DATE_TIME >>, NoBox),
           WireRec(PTLS_ALERT, << ALERT_SESSION_TIMEOUT >>, NoBox),
           WireRec(PTLS_ALERT, << >>, NoBox),
           WireRec(2, << 1 >>, NoBox) }

\* PTLSSession(...): a new object replaces the old one
HNew ==
    /\ hpc # "new"
    /\ hs' = PTLSSessionInit
    /\ hpc' = "new"
    /\ hop' = HOp("init", PTLSSessionInit, NoBytes, NoRec)
    /\ hres' = NoResult
    /\ hwrote' = << >>
    /\ UNCHANGED cvars

\* one step of handshake(): st is what the step made of the session, f the
\* frame its read returned (NoRec for a step that read none)
HStep(op, st, next, f) ==
    /\ hs' = st.s
    /\ hres' = st.r
    /\ hop' = HOp(op, hs, NoBytes, f)
    /\ hwrote' = hwrote \o st.wrote
    /\ hpc' = IF st.r.kind = "ok" THEN next ELSE "failed"
    /\ UNCHANGED cvars

\* handshake() is called: the client hello goes out
HHello ==
    /\ hpc = "new"
    /\ \E eph \in EphKeys : HStep("hello_send", hello_exchange_send(hs, eph), "hello", NoRec)

\* the read of the server hello returns
HServerHello ==
    /\ hpc = "hello"
    /\ \E f \in HelloFrames : HStep("hello_recv", hello_exchange_recv(hs, f), "verify", f)

\* the read of the server-verify response returns
HServerVerify ==
    /\ hpc = "verify"
    /\ \E f \in ServerVerifyFrames(hs) : HStep("server_verify", server_verify_recv(hs, f), "init", f)

\* the read of the initialized frame returns, and handshake() with it
HInitialized ==
    /\ hpc = "init"
    /\ \E f \in InitializedFrames : HStep("wait_initialized", wait_initialized(hs, f), "established", f)

\* asyncio.wait_for(queue.get(), 10.0) of a handshake read times out
HReadTimeout ==
    /\ hpc \in {"hello", "verify", "init"}
    /\ HStep("read_timeout", Step(hs, Raise("TimeoutError", 0), << >>), "failed", NoRec)

\* a caller calls encrypt(m)
HEncrypt ==
    /\ hs.send_counter < MaxCtr
    /\ \E m \in Plaintexts :
         LET c == encrypt(hs, m)
         IN  /\ hs' = c.s
             /\ hres' = c.r
             /\ hop' = HOp("encrypt", hs, m, NoRec)
    /\ UNCHANGED << hpc, hwrote, cvars >>

\* a caller calls async_decrypt(data)
HDecrypt ==
    /\ hs.recv_counter < MaxCtr
    /\ \E data \in RecvRecords(hs) :
         LET c == async_decrypt(hs, data)
         IN  /\ hs' = c.s
             /\ hres' = c.r
             /\ hop' = HOp("decrypt", hs, NoBytes, data)
    /\ UNCHANGED << hpc, hwrote, cvars >>

HNext == HNew \/ HHello \/ HServerHello \/ HServerVerify \/ HInitialized
         \/ HReadTimeout \/ HEncrypt \/ HDecrypt


(***************************************************************************)
(* coordinator.py, lock_commands.py, ble.py: the coordinator, its tasks    *)
(* and the device.                                                         *)
(*                                                                         *)
(* Transport objects are numbered 1, 2, ... in the order _connect creates  *)
(* them; the PTLSSession and the TedeeLock built on a transport carry its  *)
(* number.  0 is None; -1 is a TedeeLock built from a cleared coordinator  *)
(* (TedeeLock(None, None)).  A step of the model is the code a task runs   *)
(* between two suspension points of the event loop.                        *)
(***************************************************************************)
\* transports one coordinator creates
MaxConn == 3
\* losses of the link the coordinator uses
MaxDrops == 1
\* calls from outside: user commands, poll ticks, notifications of the lock
MaxCalls == 1
\* reconnects scheduled in a row without a successful connect, in the
\* harness of the reconnect back-off
MaxAttempt == 7

E == 1..MaxConn
NLs == {"nl1", "nl2"}
Issuers == {"conn", "poll", "user"} \cup NLs
Callers == {"setup", "rt", "poll"}
UserCommands == {"unlock"}

RECONNECT_DELAYS == << 2, 5, 10, 30, 60 >>

Min(a, b) == IF a < b THEN a ELSE b

NoCmd == [lk |-> 0, req |-> None]
NoBlob == [datetime |-> None, signature |-> None]
CxIdle == [own |-> "none", pc |-> "-", ep |-> 0, lk |-> 0, plan |-> << >>,
           data |-> NoBlob, hs |-> 0, first |-> None, ref |-> "none"]
NoRead == [by |-> "none", want |-> None, rec |-> NoRec, got |-> None, idx |-> None,
           ctr |-> None, cb |-> FALSE]
\* the step ran the transport's disconnected callback
CbRead == [NoRead EXCEPT !.cb = TRUE]
\* act: a user command was sent since the wait at read_notification began
NoTask == [pc |-> "none", ep |-> 0, act |-> FALSE]
NlAlive == {"start", "read", "ka_wait", "ka_read"}

\* the blob the n-th get_signed_time() returns: base64 of datetime and of
\* signature (encoded = decoded + 1000)
CloudSignedTime(n) == [datetime |-> 1000 + 2 * n, signature |-> 1001 + 2 * n]
b64decode(x) == x - 1000

\* TedeeCoordinator.is_connected
is_connected(c, S, lnk) ==
    /\ c.transport # 0
    /\ lnk = c.transport
    /\ c.session # 0
    /\ is_established(S[c.session])

\* _schedule_reconnect without its guard on a pending task (a mutant)
schedule_reconnect_unguarded(c, r) ==
    LET delay_idx == Min(c.attempt, Len(RECONNECT_DELAYS) - 1)
    IN  [co |-> [c EXCEPT !.attempt = @ + 1],
         rt |-> [pc |-> "sleep", delay |-> RECONNECT_DELAYS[delay_idx + 1],
                 failed |-> FALSE, ep |-> 0, live |-> r.live + 1]]

\* _schedule_reconnect taking its delay after the counter went up (a mutant)
schedule_reconnect_delay_after_increment(c, r) ==
    IF r.pc \notin {"none", "done"} THEN [co |-> c, rt |-> r]
    ELSE LET delay_idx == Min(c.attempt + 1, Len(RECONNECT_DELAYS) - 1)
         IN  [co |-> [c EXCEPT !.attempt = @ + 1],
              rt |-> [pc |-> "sleep", delay |-> RECONNECT_DELAYS[delay_idx + 1],
                      failed |-> FALSE, ep |-> 0, live |-> r.live + 1]]

\* _schedule_reconnect
schedule_reconnect(c, r) ==
    IF r.pc \notin {"none", "done"} THEN [co |-> c, rt |-> r]
    ELSE LET delay_idx == Min(c.attempt, Len(RECONNECT_DELAYS) - 1)
         IN  [co |-> [c EXCEPT !.attempt = @ + 1],
              rt |-> [pc |-> "sleep", delay |-> RECONNECT_DELAYS[delay_idx + 1],
                      failed |-> FALSE, ep |-> 0, live |-> r.live + 1]]

\* _on_disconnect that only schedules the reconnect (a mutant)
on_disconnect_only_schedules(c, r) ==
    IF ~c.shutting_down THEN schedule_reconnect(c, r) ELSE [co |-> c, rt |-> r]

\* _on_disconnect, the transport's disconnect callback
on_disconnect(c, r) ==
    LET c1 == [c EXCEPT !.available = FALSE, !.updated = FALSE]
    IN  IF ~c.shutting_down THEN schedule_reconnect(c1, r) ELSE [co |-> c1, rt |-> r]

\* an except clause that retries after an alert of either handshake (a
\* mutant)
HandshakeRetryAnyAttempt(r, attempt) ==
    /\ r.kind = "PTLSAlertError"
    /\ r.code \in {ALERT_INVALID_CERTIFICATE, ALERT_NO_TRUSTED_TIME}

\* the except clause around _connect's first handshake: the two alerts it
\* retries after
HandshakeRetry(r, attempt) ==
    /\ attempt = 1
    /\ r.kind = "PTLSAlertError"
    /\ r.code \in {ALERT_INVALID_CERTIFICATE, ALERT_NO_TRUSTED_TIME}

\* a _connect that drains the notifications before it sets the signed time
\* (a mutant)
PostHandshakePlanDrainFirst(needs_signed_time) ==
    IF needs_signed_time THEN << "drain", "sst", "gs", "gb" >>
    ELSE << "drain", "gs", "gb" >>

\* a _connect that fetches the state before it drains the notifications (a
\* mutant)
PostHandshakePlanStateFirst(needs_signed_time) ==
    IF needs_signed_time THEN << "sst", "gs", "drain", "gb" >>
    ELSE << "gs", "drain", "gb" >>

\* what _connect does after the handshake, in order
PostHandshakePlanAlwaysTime(needs_signed_time) ==
    << "sst", "drain", "gs", "gb" >>

PostHandshakePlan(needs_signed_time) ==
    IF needs_signed_time THEN << "sst", "drain", "gs", "gb" >>
    ELSE << "drain", "gs", "gb" >>

\* set_signed_time's payload
SignedTimePayload(blob) ==
    << CMD_SET_SIGNED_DATETIME, b64decode(blob.datetime), b64decode(blob.signature) >>

\* the payloads of get_state, get_battery, lock, unlock
CommandPayload(name) ==
    CASE name = "get_state" -> << CMD_GET_STATE >>
      [] name = "get_battery" -> << CMD_GET_BATTERY >>
      [] name = "lock" -> << CMD_LOCK, 0 >>
      [] name = "unlock" -> << CMD_UNLOCK, 0 >>

\* frames of the device during a handshake with the coordinator
GoodHello == HsFrame(PTLS_HELLO, 101, PTLS_VERSION, 244, 5, NoBox, None)
AlertFrame(code) == HsFrame(PTLS_ALERT, 2, code, 0, 0, NoBox, None)
DevFrames(phase, s) ==
    IF phase = "hs_hello"
    THEN { GoodHello, AlertFrame(ALERT_NO_TRUSTED_TIME),
           AlertFrame(ALERT_INVALID_CERTIFICATE), AlertFrame(ALERT_SESSION_TIMEOUT) }
    ELSE IF phase = "hs_verify"
    THEN { ServerVerifyFrame(s, AuthData, DevicePub, 0, TRUE),
           ServerVerifyFrame(s, AuthData, DevicePub + 1, 0, TRUE),
           AlertFrame(ALERT_INVALID_CERTIFICATE) }
    ELSE { HsFrame(PTLS_INITIALIZED, 5, 0, 0, 0, NoBox, 9),
           AlertFrame(ALERT_NO_TRUSTED_TIME) }

HsStepOf(phase, s, f) ==
    IF phase = "hs_hello" THEN hello_exchange_recv(s, f)
    ELSE IF phase = "hs_verify" THEN server_verify_recv(s, f)
    ELSE wait_initialized(s, f)

HsNext(phase) ==
    IF phase = "hs_hello" THEN "hs_verify"
    ELSE IF phase = "hs_verify" THEN "hs_init" ELSE "established"

\* the state a command touches
CurW == [sess |-> sess, dev |-> dev, infl |-> infl, sent |-> sent, cmdLock |-> cmdLock]
SetCmd(w) ==
    /\ dev' = w.dev
    /\ infl' = w.infl
    /\ cmdLock' = w.cmdLock

\* a transport, with the session and the TedeeLock built on it, that no
\* field of the coordinator, no task and no link refers to after the step
\* is garbage: Python frees it and its queues
LiveNext ==
    ({ co'.transport, co'.session, co'.lock, cx'.ep, cx'.lk, link', rt'.ep, poll'.ep, sd'.ep }
       \cup { infl'[i].lk : i \in Issuers } \cup { nl'[n].ep : n \in NLs }) \cap E

\* the objects after a step that leaves them as S, A, N, T and took the
\* record R from a queue
Objects(S, A, N, T, R) ==
    LET live == LiveNext
    IN  /\ sess' = [e \in E |-> IF e \in live THEN S[e] ELSE PTLSSessionInit]
        /\ apiQ' = [e \in E |-> IF e \in live THEN A[e] ELSE << >>]
        /\ notifQ' = [e \in E |-> IF e \in live THEN N[e] ELSE << >>]
        /\ sent' = [e \in E |-> IF e \in live THEN T[e] ELSE << >>]
        /\ lastRead' = R

(***************************************************************************)
(* TedeeLock._send_command, first half: encrypt, then write_api_command.   *)
(* Issuer i calls a command with this payload on the TedeeLock lk.         *)
(***************************************************************************)
StartCmd(i, lk, payload, w) ==
    IF lk <= 0
    THEN \* None has no such attribute
         [ok |-> FALSE, w |-> w]
    ELSE LET c == encrypt(w.sess[lk], payload)
             ctr == w.sess[lk].send_counter
             w1 == [w EXCEPT !.sess[lk] = c.s,
                             !.sent[lk] = IF @ = << >> THEN << [ctr |-> ctr, pt |-> payload] >> ELSE @]
         IN  IF c.r.kind # "ok"
             THEN \* encrypt raised: the session is not established
                  [ok |-> FALSE, w |-> w]
             ELSE IF link # lk
             THEN \* write_gatt_char on a client that is not connected raises
                  [ok |-> FALSE, w |-> w1]
             ELSE [ok |-> TRUE,
                   w |-> [w1 EXCEPT !.dev.req = Append(@, [req |-> ctr, op |-> payload[1]]),
                                    !.infl[i] = [lk |-> lk, req |-> ctr]]]

\* self.session.decrypt(response) in TedeeLock: PTLSSession defines
\* async_decrypt and _decrypt_inner and no decrypt, so the attribute lookup
\* raises AttributeError and the session is left as it is
session_decrypt(s, data) == [s |-> s, r |-> Raise("AttributeError", 0)]

\* the record the task by took from a queue, as lastRead keeps it: entry is
\* the queue's entry, d what decrypting it gave, ctr the receive counter
\* before
ReadOf(by, want, entry, d, ctr) ==
    [by |-> by, want |-> want, rec |-> entry.rec, got |-> entry.req,
     idx |-> IF LowNibble(entry.rec.hdr) = DATA_ENCRYPTED THEN entry.idx ELSE None,
     ctr |-> IF d.r.kind = "ok" THEN ctr ELSE None,
     cb |-> FALSE]

\* TedeeLock.parse_notification as far as the header and the decryption:
\* an encrypted record is decrypted, a failure is logged and None returned
parse_notification(s, data) ==
    IF LowNibble(data.hdr) = DATA_ENCRYPTED THEN session_decrypt(s, data)
    ELSE IF LowNibble(data.hdr) = DATA_NOT_ENCRYPTED THEN [s |-> s, r |-> Ok(NoRec, data.tail)]
    \* any other header: the record is parsed as it is, header byte first
    ELSE [s |-> s, r |-> Ok(NoRec, << data.hdr >> \o data.tail)]

\* tasks queued on _command_lock
Waiting ==
    \/ user.pc = "lock_wait"
    \/ poll.pc \in {"gs_wait", "gb_wait"}
    \/ \E n \in NLs : nl[n].pc = "ka_wait"

\* async with self._command_lock: await self._lock.<command>(), as far as
\* its first suspension: the task queues behind the holder and earlier
\* waiters, or takes the mutex and starts the command; a command that
\* raises before it suspends releases the mutex
Attempt(i, payload, queued, lk, w) ==
    IF w.cmdLock # "free" \/ (~queued /\ Waiting)
    THEN [at |-> "wait", w |-> w]
    ELSE LET r == StartCmd(i, lk, payload, w)
         IN  IF r.ok THEN [at |-> "read", w |-> [r.w EXCEPT !.cmdLock = i]]
             ELSE [at |-> "fail", w |-> r.w]

\* a command's second half ends and the mutex stays with it (a mutant)
Release_keeps_mutex(i, w) ==
    [w EXCEPT !.infl[i] = NoCmd]

\* a command's second half ends: the mutex is released
Release(i, w) ==
    [w EXCEPT !.cmdLock = IF @ = i THEN "free" ELSE @, !.infl[i] = NoCmd]

\* the state after construction: a new PTLSSession in the session harness,
\* and the coordinator as __init__ leaves it, with async_setup about to call
\* _connect
Init ==
    /\ hs = PTLSSessionInit
    /\ hpc = "new"
    /\ hop = HOp("init", PTLSSessionInit, NoBytes, NoRec)
    /\ hres = NoResult
    /\ hwrote = << >>
    /\ co = [transport |-> 0, session |-> 0, lock |-> 0, nltask |-> "none",
             available |-> FALSE, updated |-> FALSE, attempt |-> 0,
             shutting_down |-> FALSE, signed_time |-> CloudSignedTime(0)]
    /\ cx = CxIdle
    /\ spc = "conn_wait"
    /\ rt = [pc |-> "none", delay |-> 0, failed |-> FALSE, ep |-> 0, live |-> 0]
    /\ poll = [pc |-> "idle", ep |-> 0]
    /\ user = [pc |-> "idle", cmd |-> "none"]
    /\ nl = [n \in NLs |-> NoTask]
    /\ cmdLock = "free"
    /\ infl = [i \in Issuers |-> NoCmd]
    /\ sess = [e \in E |-> PTLSSessionInit]
    /\ link = 0
    /\ nconn = 0
    /\ cloud = 0
    /\ apiQ = [e \in E |-> << >>]
    /\ notifQ = [e \in E |-> << >>]
    /\ dev = [req |-> << >>, sent |-> 0]
    /\ sent = [e \in E |-> << >>]
    /\ lastRead = NoRead
    /\ budget = [drops |-> 0, calls |-> 0]
    /\ sd = [pc |-> "none", ep |-> 0]

(***************************************************************************)
(* _connect                                                                *)
(***************************************************************************)
\* _connect goes on holding _connecting_lock
ConnStay(x, c, r) ==
    /\ cx' = x
    /\ co' = c
    /\ rt' = r
    /\ UNCHANGED << spc, poll >>

\* _connect returns ("ok") or raises to its caller own, and the caller
\* runs on to its next suspension: async_setup ends, _reconnect's handler
\* calls _schedule_reconnect from inside the task _reconnect_task names,
\* _async_update_data marks the lock unavailable or goes on to fetch state
ConnLeave(own, out, c, r) ==
    /\ cx' = CxIdle
    /\ CASE own = "setup" ->
              /\ spc' = (IF out = "ok" THEN "done" ELSE "failed")
              /\ co' = c
              /\ rt' = r
              /\ UNCHANGED poll
         [] own = "rt" ->
              LET running == [r EXCEPT !.pc = "in_conn"]
                  s == IF out = "raise" /\ ~c.shutting_down
                       THEN schedule_reconnect(c, running)
                       ELSE [co |-> c, rt |-> running]
              IN  /\ co' = s.co
                  /\ rt' = IF s.rt = running
                           THEN [r EXCEPT !.pc = "done", !.failed = (out = "raise"),
                                          !.live = @ - 1]
                           ELSE [s.rt EXCEPT !.live = @ - 1]
                  /\ UNCHANGED << spc, poll >>
         [] own = "poll" ->
              /\ co' = (IF out = "raise"
                        THEN [c EXCEPT !.available = FALSE, !.updated = FALSE] ELSE c)
              /\ poll' = [pc |-> IF out = "ok" THEN "chk" ELSE "idle", ep |-> 0]
              /\ rt' = r
              /\ UNCHANGED spc

\* async_setup_entry keeps the coordinator only when async_setup returns;
\* one whose async_setup raised is dropped, and the model ends there
InService == spc # "failed"

CallerWaiting(t) ==
    \/ t = "setup" /\ spc = "conn_wait"
    \/ t = "rt" /\ rt.pc = "conn_wait"
    \/ t = "poll" /\ poll.pc = "conn_wait"

\* lines 167-184: the caller t gets _connecting_lock; an established
\* connection returns at once; otherwise the certificate is refreshed when
\* it is about to expire, the transport created and connect() awaited
ConnEnter(t) ==
    /\ InService
    /\ cx.own = "none"
    /\ CallerWaiting(t)
    /\ UNCHANGED << user, nl, cmdLock, infl, link, cloud, dev, budget, sd, hvars >>
    /\ IF is_connected(co, sess, link)
       THEN /\ ConnLeave(t, "ok", co, rt)
            /\ UNCHANGED nconn
       ELSE /\ nconn < MaxConn
            /\ \E need \in BOOLEAN :
                 IF need
                 THEN /\ cx' = [CxIdle EXCEPT !.own = t, !.pc = "cert"]
                      /\ UNCHANGED << co, nconn >>
                 ELSE /\ nconn' = nconn + 1
                      /\ cx' = [CxIdle EXCEPT !.own = t, !.pc = "ble", !.ep = nconn + 1,
                                              !.data = co.signed_time]
                      /\ co' = [co EXCEPT !.transport = nconn + 1]
            /\ spc' = (IF t = "setup" THEN "in_conn" ELSE spc)
            /\ rt' = (IF t = "rt" THEN [rt EXCEPT !.pc = "in_conn"] ELSE rt)
            /\ poll' = (IF t = "poll" THEN [poll EXCEPT !.pc = "in_conn"] ELSE poll)
    /\ Objects(sess, apiQ, notifQ, sent, NoRead)

\* line 175: the cloud call of _force_refresh_certificate returns or raises
ConnCert ==
    /\ InService
    /\ cx.pc = "cert"
    /\ UNCHANGED << user, nl, cmdLock, infl, link, cloud, dev, budget, sd, hvars >>
    /\ \E ok \in BOOLEAN :
         IF ok
         THEN /\ nconn < MaxConn
              /\ nconn' = nconn + 1
              /\ ConnStay([cx EXCEPT !.pc = "ble", !.ep = nconn + 1, !.data = co.signed_time],
                          [co EXCEPT !.transport = nconn + 1], rt)
         ELSE /\ ConnLeave(cx.own, "raise", co, rt)
              /\ UNCHANGED nconn
    /\ Objects(sess, apiQ, notifQ, sent, NoRead)

\* the lock as a link comes up or goes down: no request pending, no record
\* sent
DevIdle == [req |-> << >>, sent |-> 0]

\* lines 184-197 (and 208-216, 226-234): transport.connect() returns or
\* raises; on return the session is built on self._transport as it is now
\* and handshake() writes the client hello
ConnBle ==
    /\ InService
    /\ cx.pc = "ble"
    /\ UNCHANGED << user, nl, cmdLock, infl, nconn, cloud, budget, sd, hvars >>
    /\ \/ /\ link = 0
          /\ link' = cx.ep
          /\ dev' = DevIdle
          /\ IF co.transport = 0
             THEN \* PTLSSession(None, ...): handshake() raises AttributeError
                  /\ ConnLeave(cx.own, "raise", co, rt)
                  /\ Objects(sess, apiQ, notifQ, sent, NoRead)
             ELSE /\ ConnStay([cx EXCEPT !.pc = "hs_hello", !.hs = @ + 1],
                              [co EXCEPT !.session = co.transport], rt)
                  /\ Objects([sess EXCEPT ![co.transport] =
                                hello_exchange_send(PTLSSessionInit, 2).s],
                             apiQ, notifQ, sent, NoRead)
       \/ /\ ConnLeave(cx.own, "raise", co, rt)
          /\ UNCHANGED << link, dev >>
          /\ Objects(sess, apiQ, notifQ, sent, NoRead)

\* the steps _connect takes from a point after the handshake to its next
\* suspension: x is the call's locals, w the command state, c the
\* coordinator.  "stay" waits in pc; "raise" leaves _connect; "ok" is line
\* 270, all steps done.
RECURSIVE RunPlan(_, _, _, _)
RunPlan(plan, x, c, w) ==
    IF plan = << >>
    THEN [out |-> "ok", pc |-> "-", plan |-> plan, w |-> w]
    ELSE IF Head(plan) = "sst"
    THEN LET r == StartCmd("conn", c.lock, SignedTimePayload(x.data), w)
         IN  IF r.ok THEN [out |-> "stay", pc |-> "sst_read", plan |-> Tail(plan), w |-> r.w]
             ELSE [out |-> "raise", pc |-> "-", plan |-> plan, w |-> r.w]
    ELSE IF Head(plan) = "drain"
    THEN IF c.lock = 0
         THEN [out |-> "raise", pc |-> "-", plan |-> plan, w |-> w]
         ELSE [out |-> "stay", pc |-> "drain", plan |-> Tail(plan), w |-> w]
    ELSE LET r == StartCmd("conn", c.lock,
                           CommandPayload(IF Head(plan) = "gs" THEN "get_state" ELSE "get_battery"), w)
         IN  IF r.ok
             THEN [out |-> "stay", pc |-> IF Head(plan) = "gs" THEN "gs_read" ELSE "gb_read",
                   plan |-> Tail(plan), w |-> r.w]
             ELSE RunPlan(Tail(plan), x, c, r.w)

NlFree(n) == nl[n].pc \notin NlAlive

\* the outcome res of RunPlan becomes the next state; on "ok" lines 270-281
\* mark the lock available, zero the attempt counter and start a
\* notification loop task.  A, N, R: the queues and the record read.
ApplyRun(res, x, c, A, N, R) ==
    /\ dev' = res.w.dev
    /\ infl' = res.w.infl
    /\ IF res.out = "stay"
       THEN /\ ConnStay([x EXCEPT !.pc = res.pc, !.plan = res.plan], c, rt)
            /\ UNCHANGED nl
       ELSE IF res.out = "raise"
       THEN /\ ConnLeave(cx.own, "raise", c, rt)
            /\ UNCHANGED nl
       ELSE \E n \in NLs :
              /\ NlFree(n)
              /\ n = "nl2" => ~NlFree("nl1")
              /\ nl' = [nl EXCEPT ![n] = [pc |-> "start", ep |-> 0, act |-> FALSE]]
              /\ ConnLeave(cx.own, "ok",
                           [c EXCEPT !.available = TRUE, !.attempt = 0, !.updated = TRUE,
                                     !.nltask = n], rt)
    /\ Objects(res.w.sess, A, N, res.w.sent, R)

\* lines 197-248: a read of handshake() returns a frame of the device or
\* times out.  A frame that ends the handshake well is followed by the
\* TedeeLock and the first post-handshake step; an alert the except clause
\* retries after is followed by transport.disconnect(); anything else
\* leaves _connect.
ConnHs ==
    /\ InService
    /\ cx.pc \in {"hs_hello", "hs_verify", "hs_init"}
    /\ UNCHANGED << user, cmdLock, link, nconn, cloud, budget, sd, hvars >>
    /\ \E st \in (IF link = cx.ep
                  THEN { HsStepOf(cx.pc, sess[cx.ep], f) : f \in DevFrames(cx.pc, sess[cx.ep]) }
                  ELSE {}) \cup { Step(sess[cx.ep], Raise("TimeoutError", 0), << >>) } :
         LET S1 == [sess EXCEPT ![cx.ep] = st.s]
             w1 == [CurW EXCEPT !.sess = S1]
         IN  IF st.r.kind = "ok" /\ cx.pc # "hs_init"
             THEN /\ ConnStay([cx EXCEPT !.pc = HsNext(cx.pc)], co, rt)
                  /\ UNCHANGED << nl, infl, dev >>
                  /\ Objects(S1, apiQ, notifQ, sent, NoRead)
             ELSE IF st.r.kind = "ok"
             THEN LET needs == (cx.hs = 2 /\ cx.first = ALERT_NO_TRUSTED_TIME)
                      c1 == [co EXCEPT !.lock = IF co.transport = 0 \/ co.session = 0
                                                THEN -1 ELSE co.session]
                      x1 == [cx EXCEPT !.lk = c1.lock]
                  IN  ApplyRun(RunPlan(PostHandshakePlan(needs), x1, c1, w1), x1, c1,
                               apiQ, notifQ, NoRead)
             ELSE /\ UNCHANGED << nl, infl, dev >>
                  /\ IF HandshakeRetry(st.r, cx.hs) /\ co.transport # 0
                     THEN ConnStay([cx EXCEPT !.first = st.r.code,
                                              !.pc = IF link = co.transport
                                                     THEN "retry_disc" ELSE "retry_cloud"],
                                   co, rt)
                     ELSE ConnLeave(cx.own, "raise", co, rt)
                  /\ Objects(S1, apiQ, notifQ, sent, NoRead)

\* lines 201, 219: BleakClient.disconnect() returns; the backend may have
\* run the transport's disconnected callback
ConnRetryDisc ==
    /\ InService
    /\ cx.pc = "retry_disc"
    /\ UNCHANGED << user, nl, cmdLock, infl, nconn, cloud, budget, sd, hvars >>
    /\ link' = (IF link = cx.ep THEN 0 ELSE link)
    /\ dev' = (IF link = cx.ep THEN DevIdle ELSE dev)
    /\ \E cb \in (IF link = cx.ep THEN BOOLEAN ELSE {FALSE}) :
         LET s == IF cb THEN on_disconnect(co, rt) ELSE [co |-> co, rt |-> rt]
         IN  /\ ConnStay([cx EXCEPT !.pc = "retry_cloud"], s.co, s.rt)
             /\ Objects(sess, apiQ, notifQ, sent, IF cb THEN CbRead ELSE NoRead)

\* lines 202-208, 220-226: the cloud call returns or raises; on return the
\* entry is updated and re-read, and a new transport created and connected
ConnRetryCloud ==
    /\ InService
    /\ cx.pc = "retry_cloud"
    /\ UNCHANGED << user, nl, cmdLock, infl, link, dev, budget, sd, hvars >>
    /\ \E ok \in BOOLEAN :
         IF ok
         THEN /\ nconn < MaxConn
              /\ nconn' = nconn + 1
              /\ LET time == (cx.first = ALERT_NO_TRUSTED_TIME)
                     blob == IF time THEN CloudSignedTime(cloud + 1) ELSE co.signed_time
                 IN  /\ cloud' = (IF time THEN cloud + 1 ELSE cloud)
                     /\ ConnStay([cx EXCEPT !.pc = "ble", !.ep = nconn + 1, !.data = blob,
                                            !.ref = IF time THEN "time" ELSE "cert"],
                                 [co EXCEPT !.transport = nconn + 1, !.signed_time = blob], rt)
         ELSE /\ ConnLeave(cx.own, "raise", co, rt)
              /\ UNCHANGED << nconn, cloud >>
    /\ Objects(sess, apiQ, notifQ, sent, NoRead)

\* the second half of TedeeLock._send_command, lines 138-143, for issuer
\* i: the read returns the head of the queue, which is decrypted, or times
\* out.  Gives the command state after the command has ended.
ReadOutcomes(i) ==
    LET lk == infl[i].lk
    IN  IF apiQ[lk] # << >>
        THEN LET entry == Head(apiQ[lk])
                 d == session_decrypt(sess[lk], entry.rec)
             IN  { [ok |-> d.r.kind = "ok",
                    apiQ |-> [apiQ EXCEPT ![lk] = Tail(@)],
                    lastRead |-> ReadOf(i, infl[i].req, entry, d, sess[lk].recv_counter),
                    w |-> Release(i, [CurW EXCEPT !.sess[lk] = d.s])] }
        ELSE { [ok |-> FALSE, apiQ |-> apiQ, lastRead |-> NoRead, w |-> Release(i, CurW)] }

\* lines 248, 255, 264: the response read of _connect's command returns or
\* times out.  set_signed_time's failure leaves _connect; get_state's and
\* get_battery's are logged.
ConnRead ==
    /\ InService
    /\ cx.pc \in {"sst_read", "gs_read", "gb_read"}
    /\ UNCHANGED << user, cmdLock, link, nconn, cloud, budget, sd, hvars >>
    /\ \E o \in ReadOutcomes("conn") :
         IF ~o.ok /\ cx.pc = "sst_read"
         THEN /\ dev' = o.w.dev
              /\ infl' = o.w.infl
              /\ ConnLeave(cx.own, "raise", co, rt)
              /\ UNCHANGED nl
              /\ Objects(o.w.sess, o.apiQ, notifQ, o.w.sent, o.lastRead)
         ELSE ApplyRun(RunPlan(cx.plan, cx, co, o.w), cx, co, o.apiQ, notifQ, o.lastRead)

\* line 251 with drain_pending_notifications: after the sleep each read
\* returns a queued notification, which parse_notification takes, or times
\* out, which ends the drain
ConnDrain ==
    /\ InService
    /\ cx.pc = "drain"
    /\ UNCHANGED << user, cmdLock, link, nconn, cloud, budget, sd, hvars >>
    /\ IF cx.lk = -1
       THEN \* None has no read_notification
            /\ ConnLeave(cx.own, "raise", co, rt)
            /\ UNCHANGED << nl, infl, dev >>
            /\ Objects(sess, apiQ, notifQ, sent, NoRead)
       ELSE IF notifQ[cx.lk] # << >>
       THEN LET entry == Head(notifQ[cx.lk])
                d == parse_notification(sess[cx.lk], entry.rec)
            IN  /\ ConnStay(cx, co, rt)
                /\ UNCHANGED << nl, infl, dev >>
                /\ Objects([sess EXCEPT ![cx.lk] = d.s], apiQ,
                           [notifQ EXCEPT ![cx.lk] = Tail(@)], sent,
                           ReadOf("conn", None, entry, d, sess[cx.lk].recv_counter))
       ELSE ApplyRun(RunPlan(cx.plan, cx, co, CurW), cx, co, apiQ, notifQ, NoRead)

(***************************************************************************)
(* _disconnect, _reconnect, _async_update_data                             *)
(***************************************************************************)
\* lines 285-291: the notification task the coordinator names is cancelled
\* and awaited; a loop cancelled inside a command releases the mutex
Cancelled(c) == c.nltask # "none" /\ nl[c.nltask].pc \in NlAlive
NlAfterCancel(c) ==
    IF Cancelled(c) THEN [nl EXCEPT ![c.nltask] = [pc |-> "done", ep |-> 0, act |-> FALSE]]
    ELSE nl
WAfterCancel(c) ==
    IF Cancelled(c) THEN Release(c.nltask, CurW) ELSE CurW
Cleared(c) == [c EXCEPT !.transport = 0, !.session = 0, !.lock = 0]

\* _disconnect as far as its await of a connected client's disconnect();
\* with no transport, or one that is not connected, it runs to its end
DisconnectBegin(c) ==
    LET c1 == IF Cancelled(c) THEN [c EXCEPT !.nltask = "none"] ELSE c
    IN  IF c.transport # 0 /\ link = c.transport
        THEN [pc |-> "disc", ep |-> c.transport, co |-> c1]
        ELSE [pc |-> "conn_wait", ep |-> 0, co |-> Cleared(c1)]

\* _reconnect line 334-337: the sleep is over, _disconnect starts
RtWake ==
    /\ InService
    /\ rt.pc = "sleep"
    /\ UNCHANGED << cx, spc, poll, user, link, nconn, cloud, budget, sd, hvars >>
    /\ LET b == DisconnectBegin(co)
       IN  /\ rt' = [rt EXCEPT !.pc = b.pc, !.ep = b.ep]
           /\ co' = b.co
           /\ nl' = NlAfterCancel(co)
           /\ SetCmd(WAfterCancel(co))
    /\ Objects(sess, apiQ, notifQ, sent, NoRead)

\* _disconnect lines 295-301 in _reconnect: disconnect() returns, the
\* backend may have run the disconnected callback, the fields are cleared
RtDisc ==
    /\ InService
    /\ rt.pc = "disc"
    /\ UNCHANGED << cx, spc, poll, user, nl, cmdLock, infl, nconn, cloud, budget, sd, hvars >>
    /\ link' = (IF link = rt.ep THEN 0 ELSE link)
    /\ dev' = (IF link = rt.ep THEN DevIdle ELSE dev)
    /\ \E cb \in (IF link = rt.ep THEN BOOLEAN ELSE {FALSE}) :
         LET s == IF cb THEN on_disconnect(co, rt) ELSE [co |-> co, rt |-> rt]
         IN  /\ co' = Cleared(s.co)
             /\ rt' = [s.rt EXCEPT !.pc = "conn_wait", !.ep = 0]
             /\ Objects(sess, apiQ, notifQ, sent, IF cb THEN CbRead ELSE NoRead)

\* get_state then get_battery of _async_update_data, lines 457-474, from
\* stage on, as far as the next suspension
PollGb(queued, c, w) ==
    LET a == Attempt("poll", CommandPayload("get_battery"), queued, c.lock, w)
    IN  [pc |-> IF a.at = "read" THEN "gb_read"
                ELSE IF a.at = "wait" THEN "gb_wait" ELSE "idle",
         w |-> a.w]
PollGs(queued, c, w) ==
    LET a == Attempt("poll", CommandPayload("get_state"), queued, c.lock, w)
    IN  IF a.at = "fail" THEN PollGb(FALSE, c, a.w)
        ELSE [pc |-> IF a.at = "read" THEN "gs_read" ELSE "gs_wait", w |-> a.w]
PollFetch(c, w) ==
    IF c.lock # 0 /\ is_connected(c, w.sess, link) THEN PollGs(FALSE, c, w)
    ELSE [pc |-> "idle", w |-> w]

\* the poll goes on to p, which PollFetch, PollGs or PollGb gave
PollStep(p, A, R) ==
    /\ poll' = [pc |-> p.pc, ep |-> 0]
    /\ SetCmd(p.w)
    /\ Objects(p.w.sess, A, notifQ, p.w.sent, R)

\* _async_update_data is called: lines 444-460
PollTick ==
    /\ poll.pc = "idle"
    /\ spc = "done"
    /\ sd.pc # "done"
    /\ budget.calls < MaxCalls
    /\ budget' = [budget EXCEPT !.calls = @ + 1]
    /\ UNCHANGED << cx, spc, rt, user, link, nconn, cloud, sd, hvars >>
    /\ IF ~is_connected(co, sess, link)
       THEN IF rt.pc \notin {"none", "done"}
            THEN /\ UNCHANGED << poll, co, nl, cmdLock, infl, dev >>
                 /\ Objects(sess, apiQ, notifQ, sent, NoRead)
            ELSE LET b == DisconnectBegin(co)
                 IN  /\ poll' = [pc |-> b.pc, ep |-> b.ep]
                     /\ co' = b.co
                     /\ nl' = NlAfterCancel(co)
                     /\ SetCmd(WAfterCancel(co))
                     /\ Objects(sess, apiQ, notifQ, sent, NoRead)
       ELSE /\ UNCHANGED << co, nl >>
            /\ PollStep(PollFetch(co, CurW), apiQ, NoRead)

\* _disconnect lines 295-301 in _async_update_data
PollDisc ==
    /\ InService
    /\ poll.pc = "disc"
    /\ UNCHANGED << cx, spc, user, nl, cmdLock, infl, nconn, cloud, budget, sd, hvars >>
    /\ link' = (IF link = poll.ep THEN 0 ELSE link)
    /\ dev' = (IF link = poll.ep THEN DevIdle ELSE dev)
    /\ \E cb \in (IF link = poll.ep THEN BOOLEAN ELSE {FALSE}) :
         LET s == IF cb THEN on_disconnect(co, rt) ELSE [co |-> co, rt |-> rt]
         IN  /\ co' = Cleared(s.co)
             /\ rt' = s.rt
             /\ poll' = [pc |-> "conn_wait", ep |-> 0]
             /\ Objects(sess, apiQ, notifQ, sent, IF cb THEN CbRead ELSE NoRead)

\* line 457 after _connect returned
PollChk ==
    /\ InService
    /\ poll.pc = "chk"
    /\ UNCHANGED << co, cx, spc, rt, user, nl, link, nconn, cloud, budget, sd, hvars >>
    /\ PollStep(PollFetch(co, CurW), apiQ, NoRead)

\* lines 459-460, 469-470: the mutex is free, the queued poll takes it
PollGrant ==
    /\ InService
    /\ poll.pc \in {"gs_wait", "gb_wait"}
    /\ cmdLock = "free"
    /\ UNCHANGED << co, cx, spc, rt, user, nl, link, nconn, cloud, budget, sd, hvars >>
    /\ PollStep(IF poll.pc = "gs_wait" THEN PollGs(TRUE, co, CurW) ELSE PollGb(TRUE, co, CurW),
                apiQ, NoRead)

\* the response read of the poll's command returns or times out; either
\* way the next line runs
PollRead ==
    /\ InService
    /\ poll.pc \in {"gs_read", "gb_read"}
    /\ UNCHANGED << co, cx, spc, rt, user, nl, link, nconn, cloud, budget, sd, hvars >>
    /\ \E o \in ReadOutcomes("poll") :
         PollStep(IF poll.pc = "gs_read" THEN PollGb(FALSE, co, o.w)
                  ELSE [pc |-> "idle", w |-> o.w],
                  o.apiQ, o.lastRead)

(***************************************************************************)
(* _send_command of the coordinator: a user command                        *)
(***************************************************************************)
UserStep(a, cmd) ==
    /\ user' = [pc |-> IF a.at = "read" THEN "read"
                       ELSE IF a.at = "wait" THEN "lock_wait" ELSE "idle",
                cmd |-> IF a.at = "fail" THEN "none" ELSE cmd]
    /\ nl' = [n \in NLs |-> IF a.at = "read" /\ nl[n].pc = "read"
                             THEN [nl[n] EXCEPT !.act = TRUE] ELSE nl[n]]
    /\ SetCmd(a.w)
    /\ Objects(a.w.sess, apiQ, notifQ, a.w.sent, NoRead)

\* lines 505-511
UserInvoke ==
    /\ user.pc = "idle"
    /\ spc = "done"
    /\ sd.pc = "none"
    /\ budget.calls < MaxCalls
    /\ budget' = [budget EXCEPT !.calls = @ + 1]
    /\ UNCHANGED << co, cx, spc, rt, poll, link, nconn, cloud, sd, hvars >>
    /\ \E cmd \in UserCommands :
         IF ~is_connected(co, sess, link) \/ co.lock = 0
         THEN /\ UNCHANGED << user, nl, cmdLock, infl, dev >>
              /\ Objects(sess, apiQ, notifQ, sent, NoRead)
         ELSE UserStep(Attempt("user", CommandPayload(cmd), FALSE, co.lock, CurW), cmd)

\* lines 508-511: the mutex is free, the queued command takes it
UserGrant ==
    /\ InService
    /\ user.pc = "lock_wait"
    /\ cmdLock = "free"
    /\ UNCHANGED << co, cx, spc, rt, poll, link, nconn, cloud, budget, sd, hvars >>
    /\ UserStep(Attempt("user", CommandPayload(user.cmd), TRUE, co.lock, CurW), user.cmd)

\* the response read of the user's command returns or times out
UserRead ==
    /\ InService
    /\ user.pc = "read"
    /\ UNCHANGED << co, cx, spc, rt, poll, nl, link, nconn, cloud, budget, sd, hvars >>
    /\ user' = [pc |-> "idle", cmd |-> "none"]
    /\ \E o \in ReadOutcomes("user") :
         /\ SetCmd(o.w)
         /\ Objects(o.w.sess, o.apiQ, notifQ, o.w.sent, o.lastRead)

(***************************************************************************)
(* _notification_loop                                                      *)
(***************************************************************************)
\* line 353: the loop's test, and the read it starts on self._transport
LoopTest(c, S) ==
    IF is_connected(c, S, link) THEN [pc |-> "read", ep |-> c.transport, act |-> FALSE]
    ELSE [pc |-> "done", ep |-> 0, act |-> FALSE]

\* the task starts running
NlRun(n) ==
    /\ InService
    /\ nl[n].pc = "start"
    /\ UNCHANGED << co, cx, spc, rt, poll, user, cmdLock, infl, link, nconn,
                    cloud, dev, budget, sd, hvars >>
    /\ nl' = [nl EXCEPT ![n] = LoopTest(co, sess)]
    /\ Objects(sess, apiQ, notifQ, sent, NoRead)

\* lines 359, 385-392: the read returns a notification.  Without a
\* TedeeLock the loop goes round; otherwise parse_notification, a plain
\* function, runs and its result is awaited, which raises TypeError out of
\* the loop: the task ends with that exception
NlNotification(n) ==
    /\ InService
    /\ nl[n].pc = "read"
    /\ notifQ[nl[n].ep] # << >>
    /\ UNCHANGED << co, cx, spc, rt, poll, user, cmdLock, infl, link, nconn,
                    cloud, dev, budget, sd, hvars >>
    /\ LET e == nl[n].ep
           entry == Head(notifQ[e])
           N1 == [notifQ EXCEPT ![e] = Tail(@)]
       IN  IF co.lock = 0
           THEN /\ nl' = [nl EXCEPT ![n] = LoopTest(co, sess)]
                /\ Objects(sess, apiQ, N1, sent, NoRead)
           ELSE LET s == IF co.lock > 0 THEN sess[co.lock] ELSE PTLSSessionInit
                    d == parse_notification(s, entry.rec)
                IN  /\ nl' = [nl EXCEPT ![n] = [pc |-> "crashed", ep |-> 0, act |-> FALSE]]
                    /\ Objects(IF co.lock > 0 THEN [sess EXCEPT ![co.lock] = d.s] ELSE sess,
                               apiQ, N1, sent, ReadOf(n, None, entry, d, s.recv_counter))

NlStep(n, a) ==
    /\ nl' = [nl EXCEPT ![n] = IF a.at = "read" THEN [@ EXCEPT !.pc = "ka_read", !.ep = 0]
                               ELSE IF a.at = "wait" THEN [@ EXCEPT !.pc = "ka_wait", !.ep = 0]
                               ELSE [pc |-> "broke", ep |-> 0, act |-> FALSE]]
    /\ SetCmd(a.w)
    /\ Objects(a.w.sess, apiQ, notifQ, a.w.sent, NoRead)

\* lines 360-377: the read times out; with a TedeeLock and a connection the
\* keep-alive get_state is sent under the mutex, and its failure ends the
\* loop
NlTimeout(n) ==
    /\ InService
    /\ nl[n].pc = "read"
    /\ notifQ[nl[n].ep] = << >>
    /\ UNCHANGED << co, cx, spc, rt, poll, user, link, nconn, cloud, budget, sd, hvars >>
    /\ IF co.lock # 0 /\ is_connected(co, sess, link)
       THEN NlStep(n, Attempt(n, CommandPayload("get_state"), FALSE, co.lock, CurW))
       ELSE /\ nl' = [nl EXCEPT ![n] = LoopTest(co, sess)]
            /\ UNCHANGED << cmdLock, infl, dev >>
            /\ Objects(sess, apiQ, notifQ, sent, NoRead)

\* lines 364-366: the mutex is free, the queued keep-alive takes it
NlGrant(n) ==
    /\ InService
    /\ nl[n].pc = "ka_wait"
    /\ cmdLock = "free"
    /\ UNCHANGED << co, cx, spc, rt, poll, user, link, nconn, cloud, budget, sd, hvars >>
    /\ NlStep(n, Attempt(n, CommandPayload("get_state"), TRUE, co.lock, CurW))

\* lines 366-377: the keep-alive's response read returns or times out; a
\* failure breaks out of the loop, a state goes round it
NlKeepAliveRead(n) ==
    /\ InService
    /\ nl[n].pc = "ka_read"
    /\ UNCHANGED << co, cx, spc, rt, poll, user, link, nconn, cloud, budget, sd, hvars >>
    /\ \E o \in ReadOutcomes(n) :
         /\ nl' = [nl EXCEPT ![n] = IF o.ok THEN LoopTest(co, o.w.sess)
                                    ELSE [pc |-> "broke", ep |-> 0, act |-> FALSE]]
         /\ SetCmd(o.w)
         /\ Objects(o.w.sess, o.apiQ, notifQ, o.w.sent, o.lastRead)

(***************************************************************************)
(* The lock and the radio                                                  *)
(***************************************************************************)
\* what the lock may answer a request for op with: the result code 0 or a
\* code that is not 0, sealed with its next send counter, or the alert of a
\* session it has timed out.  fault: the answer is not a success.
Responses(s, ctr, op) ==
    { [rec |-> WireRec(DATA_ENCRYPTED, NoBytes,
                       aes_gcm_encrypt(s.recv_key, make_nonce(s.recv_iv, ctr), << op, result >>)),
       idx |-> ctr, fault |-> result # RESULT_SUCCESS] : result \in {RESULT_SUCCESS, RESULT_BUSY} }
    \cup { [rec |-> WireRec(PTLS_ALERT, << ALERT_SESSION_TIMEOUT >>, NoBox),
            idx |-> None, fault |-> TRUE] }

\* the lock answers the oldest request it has: the record goes to the
\* command queue of the connected transport
DevRespond ==
    /\ InService
    /\ link # 0
    /\ dev.req # << >>
    /\ UNCHANGED << co, cx, spc, rt, poll, user, nl, cmdLock, infl, link, nconn,
                    cloud, sd, hvars >>
    /\ LET r == Head(dev.req)
       IN  \E m \in Responses(sess[link], dev.sent, r.op) :
             /\ m.fault => budget.calls < MaxCalls
             /\ budget' = [budget EXCEPT !.calls = IF m.fault THEN @ + 1 ELSE @]
             /\ dev' = [req |-> Tail(dev.req),
                        sent |-> IF m.idx = None THEN dev.sent ELSE dev.sent + 1]
             /\ Objects(sess,
                        [apiQ EXCEPT ![link] = Append(@, [rec |-> m.rec, idx |-> m.idx, req |-> r.req])],
                        notifQ, sent, NoRead)

\* the notifications of the lock: an encrypted lock-status change (0xBA,
\* locked), sealed with the lock's next send counter, a plain
\* need-date-time (0xA4), or the alert of a session it has timed out
Notifications(s, ctr) ==
    { [rec |-> WireRec(DATA_ENCRYPTED, NoBytes,
                       aes_gcm_encrypt(s.recv_key, make_nonce(s.recv_iv, ctr),
                                       << NOTIFY_LOCK_STATUS_CHANGE, 6 >>)),
       idx |-> ctr, req |-> None],
      [rec |-> WireRec(DATA_NOT_ENCRYPTED, << NOTIFY_NEED_DATE_TIME >>, NoBox), idx |-> None, req |-> None],
      [rec |-> WireRec(PTLS_ALERT, << ALERT_SESSION_TIMEOUT >>, NoBox), idx |-> None, req |-> None] }

\* the lock sends a notification
DevNotify ==
    /\ InService
    /\ link # 0
    /\ is_established(sess[link])
    /\ budget.calls < MaxCalls
    /\ budget' = [budget EXCEPT !.calls = @ + 1]
    /\ UNCHANGED << co, cx, spc, rt, poll, user, nl, cmdLock, infl, link, nconn,
                    cloud, sd, hvars >>
    /\ \E m \in Notifications(sess[link], dev.sent) :
         /\ dev' = [dev EXCEPT !.sent = IF m.idx = None THEN @ ELSE @ + 1]
         /\ Objects(sess, apiQ, [notifQ EXCEPT ![link] = Append(@, m)], sent, NoRead)

\* the BLE link is lost: the transport's disconnected callback runs
\* _on_disconnect
LinkDrop ==
    /\ InService
    /\ link # 0
    /\ link # co.transport \/ budget.drops < MaxDrops
    /\ budget' = [budget EXCEPT !.drops = IF link = co.transport THEN @ + 1 ELSE @]
    /\ UNCHANGED << cx, spc, poll, user, nl, cmdLock, infl, nconn, cloud, sd, hvars >>
    /\ link' = 0
    /\ dev' = DevIdle
    /\ LET s == on_disconnect(co, rt)
       IN  /\ co' = s.co
           /\ rt' = s.rt
    /\ Objects(sess, apiQ, notifQ, sent, CbRead)

(***************************************************************************)
(* async_shutdown                                                          *)
(***************************************************************************)
\* cancel() of the reconnect task: the task ends at the await it stands at
\* with CancelledError, which no except clause of _reconnect or _connect
\* catches; a _connect it was running leaves _connecting_lock
RtCancelled(r) ==
    IF r.pc \in {"none", "done"} THEN r
    ELSE [r EXCEPT !.pc = "done", !.ep = 0, !.live = @ - 1]

\* lines 148-153: the flag is set, the reconnect task and the notification
\* task are cancelled, and _disconnect runs as far as its await of a
\* connected client's disconnect()
Shutdown ==
    /\ InService
    /\ spc = "done"
    /\ sd.pc = "none"
    /\ UNCHANGED << spc, poll, user, link, nconn, cloud, budget, hvars >>
    /\ LET c0 == [co EXCEPT !.shutting_down = TRUE]
           b == DisconnectBegin(c0)
           inconn == rt.pc \notin {"none", "done"} /\ cx.own = "rt"
           w == WAfterCancel(co)
       IN  /\ sd' = [pc |-> IF b.pc = "disc" THEN "disc" ELSE "done", ep |-> b.ep]
           /\ co' = b.co
           /\ rt' = RtCancelled(rt)
           /\ cx' = (IF inconn THEN CxIdle ELSE cx)
           /\ nl' = NlAfterCancel(co)
           /\ SetCmd(IF inconn THEN [w EXCEPT !.infl["conn"] = NoCmd] ELSE w)
    /\ Objects(sess, apiQ, notifQ, sent, NoRead)

\* _disconnect lines 295-301 in async_shutdown, then line 154: the poll
\* timer is stopped
SdDisc ==
    /\ InService
    /\ sd.pc = "disc"
    /\ UNCHANGED << cx, spc, poll, user, nl, cmdLock, infl, nconn, cloud, budget, hvars >>
    /\ link' = (IF link = sd.ep THEN 0 ELSE link)
    /\ dev' = (IF link = sd.ep THEN DevIdle ELSE dev)
    /\ \E cb \in (IF link = sd.ep THEN BOOLEAN ELSE {FALSE}) :
         LET s == IF cb THEN on_disconnect(co, rt) ELSE [co |-> co, rt |-> rt]
         IN  /\ co' = Cleared(s.co)
             /\ rt' = s.rt
             /\ sd' = [pc |-> "done", ep |-> 0]
             /\ Objects(sess, apiQ, notifQ, sent, IF cb THEN CbRead ELSE NoRead)

CNext ==
    \/ \E t \in Callers : ConnEnter(t)
    \/ ConnCert \/ ConnBle \/ ConnHs \/ ConnRetryDisc \/ ConnRetryCloud
    \/ ConnRead \/ ConnDrain
    \/ RtWake \/ RtDisc
    \/ PollTick \/ PollDisc \/ PollChk \/ PollGrant \/ PollRead
    \/ UserInvoke \/ UserGrant \/ UserRead
    \/ \E n \in NLs : NlRun(n) \/ NlNotification(n) \/ NlTimeout(n)
                      \/ NlGrant(n) \/ NlKeepAliveRead(n)
    \/ DevRespond \/ DevNotify \/ LinkDrop
    \/ Shutdown \/ SdDisc

Spec == Init /\ [][CNext]_vars

SpecSession == Init /\ [][HNext]_vars

(***************************************************************************)
(* The reconnect back-off on its own: the disconnect callback, the         *)
(* reconnect task and shutdown, with every _connect of the task reduced to *)
(* its outcome, so that many reconnects in a row fail.                     *)
(***************************************************************************)
bvars == << co, rt, cx, spc, poll >>
BRest == << user, nl, cmdLock, infl, sess, link, nconn, cloud, apiQ, notifQ, dev,
            sent, lastRead, budget, sd, hvars >>

\* a transport calls _on_disconnect: lines 304-311
BDisconnected ==
    /\ co.attempt < MaxAttempt
    /\ LET s == on_disconnect(co, rt)
       IN  co' = s.co /\ rt' = s.rt
    /\ UNCHANGED << cx, spc, poll, BRest >>

\* _reconnect lines 334-335: the sleep ends, _disconnect is awaited
BWake ==
    /\ rt.pc = "sleep"
    /\ rt' = [rt EXCEPT !.pc = "disc"]
    /\ UNCHANGED << co, cx, spc, poll, BRest >>

\* _reconnect line 336: _disconnect returned, _connect is awaited
BDisc ==
    /\ rt.pc = "disc"
    /\ rt' = [rt EXCEPT !.pc = "conn_wait"]
    /\ UNCHANGED << co, cx, spc, poll, BRest >>

\* _async_update_data lines 444-456: a poll that finds no connection and
\* no reconnect task pending connects by itself
BPollConnected(out) ==
    /\ rt.pc \in {"none", "done"}
    /\ ~co.available
    /\ ~co.shutting_down
    /\ ConnLeave("poll", out,
                 IF out = "ok"
                 THEN [co EXCEPT !.available = TRUE, !.attempt = 0, !.updated = TRUE]
                 ELSE co, rt)
    /\ UNCHANGED BRest

\* _reconnect lines 337-341: _connect returns after lines 270-273 or raises
BConnected(out) ==
    /\ rt.pc = "conn_wait"
    /\ ConnLeave("rt", out,
                 IF out = "ok"
                 THEN [co EXCEPT !.available = TRUE, !.attempt = 0, !.updated = TRUE]
                 ELSE co, rt)
    /\ UNCHANGED BRest

\* async_shutdown lines 148-150
BShutdown ==
    /\ ~co.shutting_down
    /\ co' = [co EXCEPT !.shutting_down = TRUE]
    /\ rt' = RtCancelled(rt)
    /\ UNCHANGED << cx, spc, poll, BRest >>

BNext ==
    \/ BDisconnected \/ BWake \/ BDisc \/ BShutdown
    \/ \E out \in {"ok", "raise"} : BConnected(out) \/ BPollConnected(out)

SpecBackoff == Init /\ [][BNext]_vars

(***************************************************************************)
(* _client_verify's split on its own: the frames written for a ciphertext  *)
(* of any length after a server hello that reported any MTU.               *)
(***************************************************************************)
\* the longest ciphertext tried
MaxCipherLen == 30
\* server_hello_payload[1], the MTUs tried
ServerMtus == {1, 2, 3, 23, 24, 30, 31, 32, 244}

\* lines 340-352 for a ciphertext of L bytes and a session whose server
\* hello carried the MTU m
VSplit ==
    \E L \in 0..MaxCipherLen, m \in ServerMtus :
        /\ hs' = [PTLSSessionInit EXCEPT !.server_mtu = m]
        /\ hop' = HOp("client_verify", hs', NoBytes, [len |-> L])
        /\ hwrote' = client_verify_frames(L, m)
        /\ hres' = NoResult
        /\ hpc' = "failed"
        /\ UNCHANGED cvars

SpecSplit == Init /\ [][VSplit]_vars

(***************************************************************************)
(* A session that stays in use: handshake(), then encrypt() and            *)
(* async_decrypt() call after call, with a peer whose counters keep step.  *)
(***************************************************************************)
\* the values the two counter bytes of make_nonce take
NonceSpace == 65536

\* handshake() as a whole, with a peer that answers each step as it should
NHandshake ==
    /\ hpc = "new"
    /\ \E eph \in EphKeys :
         LET s1 == hello_exchange_send(hs, eph)
             s2 == hello_exchange_recv(s1.s, GoodHello)
             s3 == server_verify_recv(s2.s, ServerVerifyFrame(s2.s, AuthData, DevicePub, 0, TRUE))
             s4 == wait_initialized(s3.s, HsFrame(PTLS_INITIALIZED, 5, 0, 0, 0, NoBox, 9))
         IN  /\ hs' = s4.s
             /\ hres' = s4.r
             /\ hop' = HOp("handshake", hs, NoBytes, NoRec)
             /\ hwrote' = s1.wrote \o s2.wrote \o s3.wrote
             /\ hpc' = "established"
    /\ UNCHANGED cvars

\* the counters looked at: the first few records of a session and the
\* first few past the counter bytes' range
NearWrap(c) == c <= MaxCtr \/ (c >= NonceSpace - 1 /\ c <= NonceSpace + MaxCtr)

\* encrypt(m)
NEncrypt ==
    /\ hpc = "established"
    /\ NearWrap(hs.send_counter)
    /\ \E m \in Plaintexts :
         LET c == encrypt(hs, m)
         IN  /\ hs' = c.s
             /\ hres' = c.r
             /\ hop' = HOp("encrypt", hs, m, NoRec)
    /\ UNCHANGED << hpc, hwrote, cvars >>

\* async_decrypt(data) of the record the peer sealed with its next counter
NDecrypt ==
    /\ hpc = "established"
    /\ NearWrap(hs.recv_counter)
    /\ LET data == WireRec(DATA_ENCRYPTED, NoBytes,
                           aes_gcm_encrypt(hs.recv_key, make_nonce(hs.recv_iv, hs.recv_counter),
                                           << CMD_GET_STATE, RESULT_SUCCESS >>))
           c == async_decrypt(hs, data)
       IN  /\ hs' = c.s
           /\ hres' = c.r
           /\ hop' = HOp("decrypt", hs, NoBytes, data)
    /\ UNCHANGED << hpc, hwrote, cvars >>

\* NonceSpace - 1 calls of encrypt, or of async_decrypt, one after the
\* other: each adds one to its counter and changes nothing else
NManyCalls ==
    /\ hpc = "established"
    /\ \E side \in {"send", "recv"} :
         /\ hs' = IF side = "send" THEN [hs EXCEPT !.send_counter = @ + (NonceSpace - 1)]
                  ELSE [hs EXCEPT !.recv_counter = @ + (NonceSpace - 1)]
         /\ (IF side = "send" THEN hs.send_counter ELSE hs.recv_counter) <= MaxCtr
         /\ hop' = HOp("many_" \o side, hs, NoBytes, NoRec)
    /\ hres' = NoResult
    /\ UNCHANGED << hpc, hwrote, cvars >>

NNext == NHandshake \/ NEncrypt \/ NDecrypt \/ NManyCalls

SpecNonce == Init /\ [][NNext]_vars




(***************************************************************************)
(* Claims about the session.                                               *)
(***************************************************************************)
\* the last call was async_decrypt of an encrypted (0x01) record, and it
\* returned the plaintext
DecryptedEncryptedRecord(op, res) ==
    op.op = "decrypt" /\ LowNibble(op.data.hdr) = DATA_ENCRYPTED /\ res.kind = "ok"

C7_RejectedBeforeEstablished ==
    (hop.op \in {"encrypt", "decrypt"} /\ ~is_established(hop.pre)) =>
        /\ hres.kind = "PTLSError"
        /\ hs = hop.pre

\* C7 witness: async_decrypt of a plaintext record was rejected on a session
\* whose handshake failed
C7_Witness ==
    /\ hop.op = "decrypt"
    /\ ~is_established(hop.pre)
    /\ hpc = "failed"
    /\ LowNibble(hop.data.hdr) = DATA_NOT_ENCRYPTED
    /\ hres.kind = "PTLSError"

HsPhases == {"hs_hello", "hs_verify", "hs_init"}
RetryPhases == {"retry_disc", "retry_cloud"}

\* the step ends the running _connect with an exception its caller sees
ConnectRaises ==
    /\ cx.own # "none"
    /\ cx' = CxIdle
    /\ CASE cx.own = "setup" -> spc' = "failed"
         [] cx.own = "rt" -> /\ rt'.pc = "done"
                             /\ rt'.failed \/ (co'.shutting_down /\ ~co.shutting_down)
         [] cx.own = "poll" -> poll'.pc = "idle" /\ ~co'.available

DelayOfScheduling(k) ==
    CASE k = 0 -> 2 [] k = 1 -> 5 [] k = 2 -> 10 [] k = 3 -> 30 [] OTHER -> 60

\* the step creates a reconnect task
ReconnectScheduled == rt'.live = rt.live + 1 \/ (rt'.pc = "sleep" /\ rt.pc # "sleep")

\* C11: a step that schedules a reconnect takes the delay from 2, 5, 10,
\* 30, 60 at the number of reconnects scheduled since the last successful
\* connect (60 from the fifth on) and raises the attempt counter by exactly
\* one; the counter changes otherwise only when a successful connect sets
\* it to zero, so that it is that number.
C11_BackoffDelay ==
    [][ /\ ReconnectScheduled =>
              /\ rt'.pc = "sleep"
              /\ rt'.delay = DelayOfScheduling(co.attempt)
              /\ co'.attempt = co.attempt + 1
        /\ ~ReconnectScheduled =>
              \/ co'.attempt = co.attempt
              \/ co'.attempt = 0 /\ co'.available /\ co'.updated
      ]_vars

\* C11 witness: the seventh reconnect in a row is scheduled, 60 seconds
\* ahead
C11_Witness ==
    /\ rt.pc = "sleep"
    /\ co.attempt = 7
    /\ rt.delay = 60

CommandInProgress(i) ==
    /\ infl[i].lk # 0
    /\ CASE i = "user" -> user.pc = "read"
         [] i = "poll" -> poll.pc \in {"gs_read", "gb_read"}
         [] i \in NLs -> nl[i].pc = "ka_read"
         [] OTHER -> FALSE

C32_ClientVerifySplit ==
    hop.op = "client_verify" =>
        LET L == hop.data.len
            m == hs.server_mtu
        IN  /\ Len(hwrote) = 2
            /\ hwrote[1].hdr = PTLS_CLIENT_VERIFY_I
            /\ hwrote[2].hdr = PTLS_CLIENT_VERIFY_II
            /\ hwrote[1].at = 0
            /\ hwrote[1].n = Min(L, m - 1)
            /\ hwrote[2].at = hwrote[1].n
            /\ hwrote[2].at + hwrote[2].n = L

\* C32 witness: the ciphertext is exactly server_mtu - 1 bytes long, and the
\* second frame is the header alone
C32_Witness ==
    /\ hop.op = "client_verify"
    /\ hop.data.len = 23
    /\ hs.server_mtu = 24
    /\ hwrote[1].n = 23
    /\ hwrote[2] = [hdr |-> PTLS_CLIENT_VERIFY_II, n |-> 0, at |-> 23]

C40_NoTeardownDuringConnect ==
    [][ ( /\ cx.own # "none" /\ cx' = cx /\ sd' = sd
          /\ link = cx.ep /\ co.transport = cx.ep
          /\ \/ rt.pc = "disc" /\ rt'.pc # "disc"
             \/ poll.pc = "disc" /\ poll'.pc # "disc" ) =>
            (link' = link /\ co'.transport = co.transport) ]_vars

=============================================================================
